---------------------------- MODULE Spec2Model ----------------------------
(***************************************************************************)
(* grpcwebproxy (src/main.go): start-up of the proxy (rootRun), the CORS   *)
(* origin predicate (NewAllowedOriginsFunc) and the call director built by *)
(* NewGrpcProxyServer.                                                     *)
(*                                                                         *)
(* Strings whose content matters (flag values, origins) are sequences of   *)
(* one-character strings, so that splitting, expansion and comparison are  *)
(* computed character by character.                                        *)
(***************************************************************************)
EXTENDS Naturals, Sequences, FiniteSets, TLC

VARIABLES
    flags,       \* command-line flag values as given (before os.ExpandEnv)
    envA,        \* value of the environment variable A ("" when unset)
    pc,          \* position of the main goroutine inside rootRun
    webpc,       \* position of the goroutine spawned at main.go:87
    logger,      \* "unset", "ok" or "nil" (zap.NewProduction's error is dropped)
    upstream,    \* rootRun's local `upstream`
    err,         \* rootRun's local `err`
    srv,         \* rootRun's local `srv`
    grpcwebsrv,  \* rootRun's local `grpcwebsrv`
    listened,    \* listeners that were started so far
    ev           \* the request the grpc-web server is handling, with its result

vars == <<flags, envA, pc, webpc, logger, upstream, err, srv, grpcwebsrv, listened, ev>>

----------------------------------------------------------------------------
(* Bounds of the model *)

MaxFlagLen == 3

MaxOriginLen == 2

MaxVals == 2

----------------------------------------------------------------------------
(* Input domains *)

Alphabet == {"a", "A", ",", "$"}

StrsUpTo(n) == UNION {[1..k -> Alphabet] : k \in 0..n}

EnvValues == {<<>>, <<"a">>, <<",">>}

CertPaths == {<<>>, <<"a">>, <<"$", "A">>}

TlsPaths == {<<>>, <<"a">>}

Origins == StrsUpTo(MaxOriginLen)

Keys == {"user-agent", "connection", "x-a"}

Values == {"v1", "v2"}

ValLists == UNION {[1..k -> Values] : k \in 1..MaxVals}

MDs == UNION {[K -> ValLists] : K \in SUBSET Keys}

Methods == {"/svc/A", "/svc/B"}

EmptyMD == [k \in {} |-> <<>>]

Contexts == {[hasMD |-> FALSE, md |-> EmptyMD]} \cup {[hasMD |-> TRUE, md |-> m] : m \in MDs}

----------------------------------------------------------------------------
(* os.ExpandEnv, as applied by MustGetString *)

Getenv(name) == IF name = <<"A">> THEN envA ELSE <<>>

IsAlphaNum(c) == c \notin {",", "$"}

RECURSIVE AlnumPrefixLen(_)
AlnumPrefixLen(s) ==
    IF s = <<>> \/ ~IsAlphaNum(Head(s)) THEN 0 ELSE 1 + AlnumPrefixLen(Tail(s))

\* getShellName: a special one-character variable ("$$"), or the longest
\* run of name characters.
ShellNameLen(s) == IF Head(s) = "$" THEN 1 ELSE AlnumPrefixLen(s)

RECURSIVE ExpandEnv(_)
ExpandEnv(s) ==
    IF s = <<>> THEN <<>>
    ELSE IF Head(s) = "$" /\ Len(s) > 1
         THEN LET rest == Tail(s)
                  w    == ShellNameLen(rest)
              IN  IF w = 0
                  THEN <<"$">> \o ExpandEnv(rest)
                  ELSE Getenv(SubSeq(rest, 1, w)) \o ExpandEnv(SubSeq(rest, w + 1, Len(rest)))
         ELSE <<Head(s)>> \o ExpandEnv(Tail(s))

MustGetString(key) == ExpandEnv(flags[key])

----------------------------------------------------------------------------
(* strings.Split(s, ",") *)

RECURSIVE SplitFrom(_, _, _)
SplitFrom(s, cur, acc) ==
    IF s = <<>> THEN Append(acc, cur)
    ELSE IF Head(s) = ","
         THEN SplitFrom(Tail(s), <<>>, Append(acc, cur))
         ELSE SplitFrom(Tail(s), Append(cur, Head(s)), acc)

Split(s) == SplitFrom(s, <<>>, <<>>)

----------------------------------------------------------------------------
(* The origin predicate *)

SliceEqual(xs, ys) ==
    /\ Len(xs) = Len(ys)
    /\ \A i \in 1..Len(xs) : xs[i] = ys[i]

HasPrefix(xs, y) ==
    \E i \in 1..Len(xs) : Len(xs[i]) <= Len(y) /\ SubSeq(y, 1, Len(xs[i])) = xs[i]

SliceContains(xs, y) == \E i \in 1..Len(xs) : xs[i] = y

\* The closure returned by NewAllowedOriginsFunc: which of the two function
\* literals it is, and the urls it captured.
AllowWhenNoUrls(urls) ==
    IF Len(urls) = 0
    THEN [fn |-> "always", urls |-> urls]
    ELSE [fn |-> "contains", urls |-> urls]

NewAllowedOriginsFunc(urls) ==
    IF SliceEqual(urls, << <<>> >>)
    THEN [fn |-> "always", urls |-> urls]
    ELSE [fn |-> "contains", urls |-> urls]

CallOriginFunc(f, origin) ==
    IF f.fn = "always" THEN TRUE ELSE SliceContains(f.urls, origin)

----------------------------------------------------------------------------
(* Values of rootRun's locals *)

NoErr == "nil"

NilConn == [id |-> 0, secure |-> FALSE]

NilSrv == [ok |-> FALSE, upstream |-> NilConn]

NilWeb == [ok |-> FALSE, srv |-> NilSrv, originFunc |-> [fn |-> "none", urls |-> <<>>]]

NoEvent == [kind |-> "none"]

Dead == {"exited", "panicked"}

Alive == pc \notin Dead

\* logger.Fatal logs and exits; on a nil logger the call panics.
ContinueAfterError(lg) == "proxy"

Fatal(lg) == IF lg = "nil" THEN "panicked" ELSE "exited"

\* NewUpstreamConnection: the certificate is loaded only for a non-empty
\* path; certOk and dialOk are the outcomes of the two library calls.
NewUpstreamConnection(certPath, certOk, dialOk) ==
    IF certPath # <<>> /\ ~certOk
    THEN [conn |-> NilConn, err |-> "cert"]
    ELSE IF dialOk
         THEN [conn |-> [id |-> 1, secure |-> certPath # <<>>], err |-> NoErr]
         ELSE [conn |-> NilConn, err |-> "dial"]

NewGrpcProxyServer(lg, up) == [srv |-> [ok |-> TRUE, upstream |-> up], err |-> NoErr]

NewGrpcWebServer(s, allowedOrigins) ==
    [web |-> [ok |-> TRUE, srv |-> s, originFunc |-> NewAllowedOriginsFunc(allowedOrigins)],
     err |-> NoErr]

----------------------------------------------------------------------------
(* The director *)

FromIncomingContext(ctx) == IF ctx.hasMD THEN ctx.md ELSE EmptyMD

Copy(md) == [k \in DOMAIN md |-> [i \in 1..Len(md[k]) |-> md[k][i]]]

Delete(md, key) == [k \in (DOMAIN md) \ {key} |-> md[k]]

DirectorKeepsConnection(ctx) == Delete(Copy(FromIncomingContext(ctx)), "user-agent")

DirectorMD(ctx) == Delete(Delete(Copy(FromIncomingContext(ctx)), "user-agent"), "connection")

DirectorRedials(s) == [s.upstream EXCEPT !.id = @ + 1]

DirectorConn(s) == s.upstream

Director(s, ctx, method) ==
    [out |-> [hasMD |-> TRUE, md |-> DirectorMD(ctx)], conn |-> DirectorConn(s), err |-> NoErr]

----------------------------------------------------------------------------
(* Initial states *)

InitLocals ==
    /\ pc = "start"
    /\ webpc = "none"
    /\ logger = "unset"
    /\ upstream = NilConn
    /\ err = NoErr
    /\ srv = NilSrv
    /\ grpcwebsrv = NilWeb
    /\ listened = {}
    /\ ev = NoEvent

\* Start-up and the director: the origin flag keeps its default ("").
Init ==
    /\ flags \in [origins : {<<>>}, upstreamCert : CertPaths, webCert : TlsPaths, webKey : TlsPaths]
    /\ envA \in {<<>>, <<"a">>}
    /\ InitLocals

\* The origin predicate: every --web-allowed-origins value up to MaxFlagLen.
InitOrigins ==
    /\ flags \in [origins : StrsUpTo(MaxFlagLen), upstreamCert : {<<>>}, webCert : {<<>>}, webKey : {<<>>}]
    /\ envA \in EnvValues
    /\ InitLocals

----------------------------------------------------------------------------
(* rootRun, main goroutine *)

NewLogger ==
    /\ pc = "start"
    /\ \E lg \in {"ok", "nil"} : logger' = lg
    /\ pc' = "connect"
    /\ UNCHANGED <<flags, envA, webpc, upstream, err, srv, grpcwebsrv, listened, ev>>

ConnectUpstream ==
    /\ pc = "connect"
    /\ \E certOk \in BOOLEAN, dialOk \in BOOLEAN :
         LET r == NewUpstreamConnection(MustGetString("upstreamCert"), certOk, dialOk)
         IN  /\ upstream' = r.conn
             /\ err' = r.err
             /\ pc' = IF r.err # NoErr THEN Fatal(logger) ELSE "proxy"
    /\ UNCHANGED <<flags, envA, webpc, logger, srv, grpcwebsrv, listened, ev>>

InitProxy ==
    /\ pc = "proxy"
    /\ LET r == NewGrpcProxyServer(logger, upstream)
       IN  /\ srv' = r.srv
           /\ err' = r.err
           /\ pc' = IF r.err # NoErr THEN Fatal(logger) ELSE "web"
    /\ UNCHANGED <<flags, envA, webpc, logger, upstream, grpcwebsrv, listened, ev>>

InitWeb ==
    /\ pc = "web"
    /\ LET origins == Split(MustGetString("origins"))
           r       == NewGrpcWebServer(srv, origins)
       IN  /\ grpcwebsrv' = r.web
           /\ err' = r.err
           /\ pc' = IF r.err # NoErr THEN Fatal(logger) ELSE "spawn"
    /\ UNCHANGED <<flags, envA, webpc, logger, upstream, srv, listened, ev>>

SpawnWeb ==
    /\ pc = "spawn"
    /\ webpc' = "log"
    /\ pc' = "metricsLog"
    /\ UNCHANGED <<flags, envA, logger, upstream, err, srv, grpcwebsrv, listened, ev>>

MetricsLog ==
    /\ pc = "metricsLog"
    /\ pc' = IF logger = "nil" THEN "panicked" ELSE "metricsListen"
    /\ UNCHANGED <<flags, envA, webpc, logger, upstream, err, srv, grpcwebsrv, listened, ev>>

\* http.ListenAndServe either binds and serves, or returns at once; when it
\* returns, rootRun and main return and the process ends.
MetricsListen ==
    /\ pc = "metricsListen"
    /\ \E bound \in BOOLEAN :
         IF bound
         THEN pc' = "metricsServing" /\ listened' = listened \cup {"metrics"}
         ELSE pc' = "exited" /\ listened' = listened
    /\ UNCHANGED <<flags, envA, webpc, logger, upstream, err, srv, grpcwebsrv, ev>>

MetricsReturn ==
    /\ pc = "metricsServing"
    /\ pc' = "exited"
    /\ UNCHANGED <<flags, envA, webpc, logger, upstream, err, srv, grpcwebsrv, listened, ev>>

----------------------------------------------------------------------------
(* rootRun, the goroutine serving grpc-web *)

WebLog ==
    /\ Alive
    /\ webpc = "log"
    /\ IF logger = "nil"
       THEN pc' = "panicked" /\ webpc' = webpc
       ELSE pc' = pc /\ webpc' = "listen"
    /\ UNCHANGED <<flags, envA, logger, upstream, err, srv, grpcwebsrv, listened, ev>>

WebListen ==
    /\ Alive
    /\ webpc = "listen"
    /\ \E bound \in BOOLEAN :
         LET tls == MustGetString("webCert") # <<>> /\ MustGetString("webKey") # <<>>
         IN  IF bound
             THEN /\ webpc' = "serving"
                  /\ listened' = listened \cup {IF tls THEN "web-https" ELSE "web-http"}
             ELSE /\ webpc' = "returned"
                  /\ listened' = listened
    /\ UNCHANGED <<flags, envA, pc, logger, upstream, err, srv, grpcwebsrv, ev>>

WebReturn ==
    /\ Alive
    /\ webpc = "serving"
    /\ webpc' = "returned"
    /\ UNCHANGED <<flags, envA, pc, logger, upstream, err, srv, grpcwebsrv, listened, ev>>

----------------------------------------------------------------------------
(* Requests handled by grpcwebsrv *)

\* The server's handling of one request at a time is followed here: the
\* handlers share no mutable state, so requests do not interfere.
OriginCheck ==
    /\ Alive
    /\ webpc = "serving"
    /\ ev = NoEvent
    /\ \E origin \in Origins :
         ev' = [kind |-> "origin", origin |-> origin,
                allowed |-> CallOriginFunc(grpcwebsrv.originFunc, origin)]
    /\ UNCHANGED <<flags, envA, pc, webpc, logger, upstream, err, srv, grpcwebsrv, listened>>

DirectorCall ==
    /\ Alive
    /\ webpc = "serving"
    /\ ev = NoEvent
    /\ \E ctx \in Contexts, method \in Methods :
         LET r == Director(grpcwebsrv.srv, ctx, method)
         IN  ev' = [kind |-> "director", method |-> method, ctx |-> ctx,
                    out |-> r.out, conn |-> r.conn, err |-> r.err]
    /\ UNCHANGED <<flags, envA, pc, webpc, logger, upstream, err, srv, grpcwebsrv, listened>>

RequestDone ==
    /\ ev # NoEvent
    /\ ev' = NoEvent
    /\ UNCHANGED <<flags, envA, pc, webpc, logger, upstream, err, srv, grpcwebsrv, listened>>

----------------------------------------------------------------------------

Startup ==
    \/ NewLogger
    \/ ConnectUpstream
    \/ InitProxy
    \/ InitWeb
    \/ SpawnWeb
    \/ MetricsLog
    \/ MetricsListen
    \/ MetricsReturn
    \/ WebLog
    \/ WebListen
    \/ WebReturn

Next == Startup \/ OriginCheck \/ DirectorCall \/ RequestDone

NextOrigins == Startup \/ OriginCheck \/ RequestDone

Spec == Init /\ [][Next]_vars

SpecOrigins == InitOrigins /\ [][NextOrigins]_vars

----------------------------------------------------------------------------
(* Properties *)

Reserved == {"user-agent", "connection"}

\* C1: the metadata the director sends upstream holds neither "user-agent"
\* nor "connection"; every other inbound key is kept with the same values in
\* the same order, and no key is added.
C1_DirectorStripsReservedKeys ==
    ev.kind = "director" =>
        LET m   == ev.ctx.md
            out == ev.out.md
        IN  /\ Reserved \cap DOMAIN out = {}
            /\ DOMAIN out = (DOMAIN m) \ Reserved
            /\ \A k \in DOMAIN out :
                 /\ Len(out[k]) = Len(m[k])
                 /\ \A i \in 1..Len(m[k]) : out[k][i] = m[k][i]

\* A call carrying both reserved keys and a two-valued key whose values differ.
C1_Witness ==
    /\ ev.kind = "director"
    /\ ev.ctx.hasMD
    /\ DOMAIN ev.ctx.md = Keys
    /\ ev.ctx.md["x-a"] = <<"v2", "v1">>
    /\ DOMAIN ev.out.md = {"x-a"}

\* The value of --web-allowed-origins as rootRun reads it.
ConfiguredOrigins == MustGetString("origins")

\* C2: with an empty configured allow-list every origin is allowed, the
\* empty origin included.
C2_EmptyAllowListAllowsAll ==
    (ev.kind = "origin" /\ ConfiguredOrigins = <<>>) => ev.allowed

\* The empty origin checked under the default flag value.
C2_Witness ==
    /\ ev.kind = "origin"
    /\ flags.origins = <<>>
    /\ ev.origin = <<>>
    /\ ev.allowed

\* o is one of the comma-separated entries of s: a comma-free stretch of s
\* delimited on each side by a comma or by the end of s.
IsEntry(o, s) ==
    /\ \A i \in 1..Len(o) : o[i] # ","
    /\ \E i \in 1..(Len(s) + 1) :
         LET j == i + Len(o) - 1
         IN  /\ j <= Len(s)
             /\ SubSeq(s, i, j) = o
             /\ (i = 1 \/ s[i - 1] = ",")
             /\ (j = Len(s) \/ s[j + 1] = ",")

\* C3: with a non-empty configured allow-list an origin is allowed exactly
\* when it equals one of the configured entries, character for character.
C3_ExactMatchOnly ==
    (ev.kind = "origin" /\ ConfiguredOrigins # <<>>) =>
        (ev.allowed <=> IsEntry(ev.origin, ConfiguredOrigins))

\* The second of two entries is allowed.
C3_Witness ==
    /\ ev.kind = "origin"
    /\ flags.origins = <<"a", ",", "A">>
    /\ ev.origin = <<"A">>
    /\ ev.allowed

\* C9: every call, with or without inbound metadata, gets the connection
\* rootRun dialed and a nil error; once dialed, that connection is never
\* replaced or modified.
C9_DirectorReturnsTheUpstream ==
    /\ [](ev.kind = "director" =>
            /\ ev.conn = upstream
            /\ ev.conn # NilConn
            /\ ev.err = NoErr)
    /\ [][upstream # NilConn => upstream' = upstream]_vars

\* A call without inbound metadata, routed to the dialed connection.
C9_Witness ==
    /\ ev.kind = "director"
    /\ ~ev.ctx.hasMD
    /\ ev.method = "/svc/B"
    /\ ev.conn = upstream
    /\ upstream.id = 1

\* C10: when NewUpstreamConnection fails the process ends and no listener is
\* ever started; a listener is started only after the upstream connection,
\* the proxy server and the grpc-web wrapper were created without error.
C10_StartupFatalWithoutUpstream ==
    /\ err # NoErr => (pc \in Dead /\ listened = {} /\ webpc = "none")
    /\ (listened # {} \/ webpc # "none") =>
            /\ err = NoErr
            /\ upstream # NilConn
            /\ srv.ok /\ srv.upstream = upstream
            /\ grpcwebsrv.ok /\ grpcwebsrv.srv = srv

\* The upstream certificate could not be loaded.
C10_Witness ==
    /\ err = "cert"
    /\ flags.upstreamCert = <<"a">>
    /\ pc = "exited"
    /\ listened = {}

=============================================================================
